---- MODULE Spec2Model ----
(***************************************************************************)
(* Model of backend/lib/endpoints/users.js (FightPandemics, /api/users):   *)
(* the directory search (GET /), the single-profile reads (GET /current,   *)
(* GET /:userId), the profile update (PATCH /current) and the avatar       *)
(* upload/delete (updateUserAvatar) with their fan-out of author           *)
(* snapshots to posts, comments and threads.                               *)
(*                                                                         *)
(* Text values are sequences of one-character strings, so that the         *)
(* display name is a real concatenation and a keyword match a real         *)
(* substring test.  A JS object is a function whose DOMAIN is its keys.    *)
(***************************************************************************)
EXTENDS Integers, Sequences, FiniteSets, TLC

VARIABLES
    users,      \* the IndividualUser collection: id -> document or NoUser
    posts,      \* the Post collection: sequence of documents with an author snapshot
    comments,   \* the Comment collection: sequence of documents with an author snapshot
    threads,    \* the Thread collection: sequence of documents with a participants array
    req,        \* the write requests in flight: request -> handler state
    query,      \* the last read request served (GET /, GET /current, GET /:userId)
    resp        \* the response given to that read request

vars == <<users, posts, comments, threads, req, query, resp>>

-----------------------------------------------------------------------------
(* Values *)

NoUser == [none |-> TRUE]           \* findById(...) === null
Undefined == [undefined |-> TRUE]   \* a JS value that is undefined (absent)
Null == [null |-> TRUE]             \* a null produced by the aggregation

Jan == <<"J", "a", "n">>
Jo  == <<"J", "o">>
Doe == <<"D", "o", "e">>
Empty == <<>>                       \* the empty string ""

UserIds == {1, 2, 3, 4}             \* identities; 4 has no profile at first
Reqs == {1, 2}                      \* write requests that may overlap

\* JS truthiness of a text value and of a photo reference
TruthyText(t) == t # Empty
TruthyPhoto(p) == p \notin {"", "NULL"}

\* the `name` virtual of a user document, read at users.js:291,322
FullName(u) == u.firstName \o <<" ">> \o u.lastName

\* the author/participant snapshot that content created for user i embeds
Snapshot(i, u) == [id |-> i, name |-> FullName(u), photo |-> u.photo]

-----------------------------------------------------------------------------
(* PATCH /current and updateUserAvatar: handler state *)

Collections == {"posts", "comments", "threads"}

\* primary records how the handler's own load and save went; tried and failed
\* record the fan-out updates issued and those that failed; existed records
\* whether the caller had a profile when the request arrived
IdleReq == [pc |-> "idle", kind |-> "none", userId |-> 1, body |-> <<>>,
            file |-> "none", loaded |-> NoUser, user |-> NoUser,
            primary |-> "pending", tried |-> {}, failed |-> {},
            existed |-> FALSE, alone |-> TRUE, status |-> "none", sent |-> NoUser]

InFlight(r) == req[r].pc \notin {"idle", "done", "hung"}

\* bodies a client can submit to PATCH /current (updateUserSchema fields)
BodyKeys == {"firstName", "lastName", "photo", "about"}
BodyVals(k) ==
    CASE k = "firstName" -> {Jo}
      [] k = "lastName"  -> {Empty}
      [] k = "photo"     -> {"", "p2"}
      [] k = "about"     -> {<<"h", "i">>}
MkBody(K, f, l, p, a) ==
    [k \in K |-> CASE k = "firstName" -> f
                  [] k = "lastName"  -> l
                  [] k = "photo"     -> p
                  [] k = "about"     -> a]
Bodies == {MkBody(K, f, l, p, a) : K \in SUBSET BodyKeys,
              f \in BodyVals("firstName"), l \in BodyVals("lastName"),
              p \in BodyVals("photo"), a \in BodyVals("about")}

\* Object.assign(user, body): the in-memory document after the merge
Assign(u, body) ==
    [k \in DOMAIN u |-> IF k \in DOMAIN body THEN body[k] ELSE u[k]]

\* document.save(): the store receives a $set of the paths the handler
\* modified on the document it loaded, and no other path
SaveDoc(stored, loaded, doc) ==
    [k \in DOMAIN stored |-> IF doc[k] # loaded[k] THEN doc[k] ELSE stored[k]]

\* body.firstName etc. as the destructuring at users.js:287 reads them
HasTruthyText(body, k) == k \in DOMAIN body /\ TruthyText(body[k])
HasTruthyPhoto(body) == "photo" \in DOMAIN body /\ TruthyPhoto(body["photo"])

\* the guard `if (firstName || lastName || photo)` at users.js:288
NeedsPropagation(body) ==
    HasTruthyText(body, "firstName") \/ HasTruthyText(body, "lastName")
        \/ HasTruthyPhoto(body)

\* updateOps built at users.js:289-295 from the updated document
UpdateOps(body, u) ==
    LET n == IF HasTruthyText(body, "firstName") \/ HasTruthyText(body, "lastName")
             THEN {"name"} ELSE {}
        p == IF HasTruthyPhoto(body) THEN {"photo"} ELSE {}
    IN  [k \in n \cup p |-> IF k = "name" THEN FullName(u) ELSE u.photo]

\* $set of ops on one embedded snapshot
SetSnapshot(s, ops) == [k \in DOMAIN s |-> IF k \in DOMAIN ops THEN ops[k] ELSE s[k]]

\* Model.updateMany({"author.id": id}, {$set: ops}) on posts or comments
UpdateAuthors(coll, id, ops) ==
    [i \in DOMAIN coll |->
        IF coll[i].author.id = id
        THEN [coll[i] EXCEPT !.author = SetSnapshot(@, ops)]
        ELSE coll[i]]

\* Thread.updateMany({"participants.id": id}, {$set: participants.$[userToUpdate].*},
\*                   {arrayFilters: [{"userToUpdate.id": id}]})
UpdateParticipants(coll, id, ops) ==
    [i \in DOMAIN coll |->
        [coll[i] EXCEPT !.participants =
            [j \in DOMAIN @ |-> IF @[j].id = id THEN SetSnapshot(@[j], ops) ELSE @[j]]]]

-----------------------------------------------------------------------------
(* Initial state of the write model *)

\* a location: a point (one coordinate stands for the [lng, lat] pair) and
\* the jurisdiction texts of that place
Place(c) == [coordinates |-> c,
             country |-> <<"N", "L">>,
             state |-> <<"Z", "H">>,
             city |-> IF c = 0 THEN <<"X">> ELSE <<"Y">>]

\* the profile of user i as registered
InitUser(i) ==
    [_id       |-> i,
     type      |-> "Individual",
     firstName |-> IF i = 1 THEN Jan ELSE Jo,
     lastName  |-> Doe,
     photo     |-> "p1",
     about     |-> IF i = 3 THEN <<"j", "o">> ELSE Empty,
     urls      |-> <<>>,
     hide      |-> [address |-> (i = 2)],
     location  |-> Place(0),
     needs     |-> [medicalHelp |-> (i = 2), otherHelp |-> FALSE],
     objectives |-> [donate |-> FALSE, shareInformation |-> FALSE,
                     volunteer |-> (i # 2)]]

InitUsers == [i \in UserIds |-> IF i = 4 THEN NoUser ELSE InitUser(i)]

NoQuery == [op |-> "none"]
NoResp == [status |-> "none"]

\* content created before any update: every snapshot agrees with its profile
InitPosts == <<[author |-> Snapshot(1, InitUser(1))],
               [author |-> Snapshot(2, InitUser(2))],
               [author |-> Snapshot(1, InitUser(1))]>>
InitComments == <<[author |-> Snapshot(2, InitUser(2))],
                  [author |-> Snapshot(1, InitUser(1))]>>
InitThreads ==
    <<[participants |-> <<Snapshot(1, InitUser(1)), Snapshot(2, InitUser(2))>>],
      [participants |-> <<Snapshot(2, InitUser(2)), Snapshot(3, InitUser(3))>>]>>

InitContent ==
    /\ posts = InitPosts
    /\ comments = InitComments
    /\ threads = InitThreads

Init ==
    /\ users = InitUsers
    /\ InitContent
    /\ req = [r \in Reqs |-> IdleReq]
    /\ query = NoQuery
    /\ resp = NoResp

-----------------------------------------------------------------------------
(* PATCH /current, users.js:266-335 *)

\* requests are interchangeable: they are numbered in their order of arrival
Arrives(r) == req[r].pc = "idle" /\ \A q \in Reqs : q < r => req[q].pc # "idle"

\* another request of the same caller is in flight while r is
Overlaps(r, uid) == {q \in Reqs \ {r} : InFlight(q) /\ req[q].userId = uid}

\* the request arrives: authenticated caller uid, validated body
PatchStart(r, uid, body) ==
    /\ Arrives(r)
    /\ req' = [q \in Reqs |->
                 IF q = r
                 THEN [IdleReq EXCEPT !.pc = "load", !.kind = "patch",
                                      !.userId = uid, !.body = body,
                                      !.alone = (Overlaps(r, uid) = {})]
                 ELSE IF q \in Overlaps(r, uid)
                      THEN [req[q] EXCEPT !.alone = FALSE]
                      ELSE req[q]]
    /\ UNCHANGED <<users, posts, comments, threads, query, resp>>

\* User.findById(userId) at :271-277; err says whether the store failed
PatchLoad(r, err) ==
    /\ req[r].pc = "load" /\ req[r].kind = "patch"
    /\ req' = [req EXCEPT ![r] =
                 IF err THEN [@ EXCEPT !.pc = "done", !.status = "internal",
                                       !.primary = "loadFailed"]
                 ELSE IF users[@.userId] = NoUser
                      THEN [@ EXCEPT !.pc = "done", !.status = "notFound",
                                     !.primary = "absent"]
                      ELSE [@ EXCEPT !.pc = "save", !.loaded = users[req[r].userId],
                                     !.user = users[req[r].userId]]]
    /\ UNCHANGED <<users, posts, comments, threads, query, resp>>

\* Object.assign(user, body).save() at :278-284, then the guard at :287-288
PatchSave(r, err) ==
    /\ req[r].pc = "save" /\ req[r].kind = "patch"
    /\ LET updatedUser == Assign(req[r].user, req[r].body) IN
       IF err
       THEN /\ req' = [req EXCEPT ![r] = [@ EXCEPT !.pc = "done", !.status = "internal",
                                                   !.primary = "saveFailed"]]
            /\ UNCHANGED users
       ELSE /\ users' = [users EXCEPT ![req[r].userId] =
                            SaveDoc(@, req[r].loaded, updatedUser)]
            /\ req' = [req EXCEPT ![r] =
                         IF NeedsPropagation(@.body)
                         THEN [@ EXCEPT !.pc = "posts", !.user = updatedUser,
                                        !.primary = "ok"]
                         ELSE [@ EXCEPT !.pc = "done", !.user = updatedUser,
                                        !.primary = "ok",
                                        !.status = "ok", !.sent = updatedUser]]
    /\ UNCHANGED <<posts, comments, threads, query, resp>>

\* a handler that throws on a failed Post.updateMany instead of logging it
PatchPostsThrows(r, err) ==
    /\ req[r].pc = "posts" /\ req[r].kind = "patch"
    /\ posts' = IF err THEN posts
                ELSE UpdateAuthors(posts, req[r].userId,
                                   UpdateOps(req[r].body, req[r].user))
    /\ req' = [req EXCEPT ![r] =
                 IF err
                 THEN [@ EXCEPT !.pc = "done", !.status = "internal",
                                !.tried = @ \cup {"posts"},
                                !.failed = @ \cup {"posts"}]
                 ELSE [@ EXCEPT !.pc = "comments", !.tried = @ \cup {"posts"}]]
    /\ UNCHANGED <<users, comments, threads, query, resp>>

\* Post.updateMany at :297-305; a failure is logged and the handler goes on
PatchPosts(r, err) ==
    /\ req[r].pc = "posts" /\ req[r].kind = "patch"
    /\ posts' = IF err THEN posts
                ELSE UpdateAuthors(posts, req[r].userId,
                                   UpdateOps(req[r].body, req[r].user))
    /\ req' = [req EXCEPT ![r] =
                 [@ EXCEPT !.pc = "comments",
                           !.tried = @ \cup {"posts"},
                           !.failed = IF err THEN @ \cup {"posts"} ELSE @]]
    /\ UNCHANGED <<users, comments, threads, query, resp>>

\* Comment.updateMany at :307-315
PatchComments(r, err) ==
    /\ req[r].pc = "comments" /\ req[r].kind = "patch"
    /\ comments' = IF err THEN comments
                   ELSE UpdateAuthors(comments, req[r].userId,
                                      UpdateOps(req[r].body, req[r].user))
    /\ req' = [req EXCEPT ![r] =
                 [@ EXCEPT !.pc = "threads",
                           !.tried = @ \cup {"comments"},
                           !.failed = IF err THEN @ \cup {"comments"} ELSE @]]
    /\ UNCHANGED <<users, posts, threads, query, resp>>

\* the $set of Thread.updateMany at :320-325: name and photo, always both
ThreadOps(u) == [k \in {"name", "photo"} |-> IF k = "name" THEN FullName(u) ELSE u.photo]

\* Thread.updateMany at :317-331, then `return updatedUser` at :333
PatchThreads(r, err) ==
    /\ req[r].pc = "threads" /\ req[r].kind = "patch"
    /\ threads' = IF err THEN threads
                  ELSE UpdateParticipants(threads, req[r].userId, ThreadOps(req[r].user))
    /\ req' = [req EXCEPT ![r] =
                 [@ EXCEPT !.pc = "done", !.status = "ok", !.sent = req[r].user,
                           !.tried = @ \cup {"threads"},
                           !.failed = IF err THEN @ \cup {"threads"} ELSE @]]
    /\ UNCHANGED <<users, posts, comments, query, resp>>

-----------------------------------------------------------------------------
(* updateUserAvatar, users.js:394-465, called by POST and DELETE            *)
(* /current/avatar at :467-490.  The Promise executor receives `resolve`    *)
(* only: every `reject(...)` raises a ReferenceError inside the async       *)
(* executor, whose own promise nobody awaits, so the promise the route      *)
(* awaits is never settled and the request gets no response ("hung").       *)

Files == {"file", "none"}           \* an uploaded file, or null for the delete case

AvatarStart(r, uid, file) ==
    /\ Arrives(r)
    /\ req' = [q \in Reqs |->
                 IF q = r
                 THEN [IdleReq EXCEPT !.pc = "load", !.kind = "avatar",
                                      !.userId = uid, !.file = file,
                                      !.alone = (Overlaps(r, uid) = {})]
                 ELSE IF q \in Overlaps(r, uid)
                      THEN [req[q] EXCEPT !.alone = FALSE]
                      ELSE req[q]]
    /\ UNCHANGED <<users, posts, comments, threads, query, resp>>

\* User.findById at :399-405
AvatarLoad(r, err) ==
    /\ req[r].pc = "load" /\ req[r].kind = "avatar"
    /\ req' = [req EXCEPT ![r] =
                 IF err \/ users[@.userId] = NoUser
                 THEN [@ EXCEPT !.pc = "hung",
                                !.primary = IF err THEN "loadFailed" ELSE "absent"]
                 ELSE [@ EXCEPT !.pc = IF req[r].file = "none" THEN "save" ELSE "upload",
                                !.loaded = users[req[r].userId],
                                !.user = [users[req[r].userId] EXCEPT !.photo =
                                             IF req[r].file = "none" THEN "NULL" ELSE @]]]
    /\ UNCHANGED <<users, posts, comments, threads, query, resp>>

\* await uploadUserAvatar(userId, file) at :408; a throw lands in the catch at :460
AvatarUpload(r, err) ==
    /\ req[r].pc = "upload" /\ req[r].kind = "avatar"
    /\ req' = [req EXCEPT ![r] =
                 IF err THEN [@ EXCEPT !.pc = "hung", !.primary = "uploadFailed"]
                 ELSE [@ EXCEPT !.pc = "save", !.user = [@ EXCEPT !.photo = "cdn"]]]
    /\ UNCHANGED <<users, posts, comments, threads, query, resp>>

\* user.save() at :409-413
AvatarSave(r, err) ==
    /\ req[r].pc = "save" /\ req[r].kind = "avatar"
    /\ IF err
       THEN /\ req' = [req EXCEPT ![r] = [@ EXCEPT !.pc = "hung",
                                                   !.primary = "saveFailed"]]
            /\ UNCHANGED users
       ELSE /\ users' = [users EXCEPT ![req[r].userId] =
                            SaveDoc(@, req[r].loaded, req[r].user)]
            /\ req' = [req EXCEPT ![r] = [@ EXCEPT !.pc = "posts", !.primary = "ok"]]
    /\ UNCHANGED <<posts, comments, threads, query, resp>>

\* updateOps at :416-418 and the $set at :445-449: the photo only
PhotoOps(u) == [k \in {"photo"} |-> u.photo]

\* Post.updateMany at :419-427
AvatarPosts(r, err) ==
    /\ req[r].pc = "posts" /\ req[r].kind = "avatar"
    /\ posts' = IF err THEN posts
                ELSE UpdateAuthors(posts, req[r].userId, PhotoOps(req[r].user))
    /\ req' = [req EXCEPT ![r] =
                 [@ EXCEPT !.pc = "comments",
                           !.tried = @ \cup {"posts"},
                           !.failed = IF err THEN @ \cup {"posts"} ELSE @]]
    /\ UNCHANGED <<users, comments, threads, query, resp>>

\* Comment.updateMany at :429-440
AvatarComments(r, err) ==
    /\ req[r].pc = "comments" /\ req[r].kind = "avatar"
    /\ comments' = IF err THEN comments
                   ELSE UpdateAuthors(comments, req[r].userId, PhotoOps(req[r].user))
    /\ req' = [req EXCEPT ![r] =
                 [@ EXCEPT !.pc = "threads",
                           !.tried = @ \cup {"comments"},
                           !.failed = IF err THEN @ \cup {"comments"} ELSE @]]
    /\ UNCHANGED <<users, posts, threads, query, resp>>

\* Thread.updateMany at :442-455, then resolve({updatedUser}) at :457
AvatarThreads(r, err) ==
    /\ req[r].pc = "threads" /\ req[r].kind = "avatar"
    /\ threads' = IF err THEN threads
                  ELSE UpdateParticipants(threads, req[r].userId, PhotoOps(req[r].user))
    /\ req' = [req EXCEPT ![r] =
                 [@ EXCEPT !.pc = "done", !.status = "ok", !.sent = req[r].user,
                           !.tried = @ \cup {"threads"},
                           !.failed = IF err THEN @ \cup {"threads"} ELSE @]]
    /\ UNCHANGED <<users, posts, comments, query, resp>>

-----------------------------------------------------------------------------
(* POST /, users.js:492-523: the creation of the caller's profile *)

\* userData at :511-516: the validated body with the caller's identity
UserData(uid) == InitUser(uid)

\* the request arrives; uid is 0 when the authentication left no userId
CreateStart(r, uid) ==
    /\ Arrives(r)
    /\ req' = [q \in Reqs |->
                 IF q = r
                 THEN [IdleReq EXCEPT !.pc = "verify", !.kind = "create",
                                      !.userId = uid,
                                      !.existed = (uid # 0 /\ users[uid] # NoUser),
                                      !.alone = (Overlaps(r, uid) = {})]
                 ELSE IF q \in Overlaps(r, uid)
                      THEN [req[q] EXCEPT !.alone = FALSE]
                      ELSE req[q]]
    /\ UNCHANGED <<users, posts, comments, threads, query, resp>>

\* await Auth0.getUser(...) at :496-498 and the two guards at :499-507
CreateVerify(r, emailVerified, err) ==
    /\ req[r].pc = "verify" /\ req[r].kind = "create"
    /\ req' = [req EXCEPT ![r] =
                 IF err
                 THEN [@ EXCEPT !.pc = "done", !.status = "internal",
                                !.primary = "authFailed"]
                 ELSE IF ~emailVerified
                 THEN [@ EXCEPT !.pc = "done", !.status = "forbidden",
                                !.primary = "unverified"]
                 ELSE IF req[r].userId = 0
                 THEN [@ EXCEPT !.pc = "done", !.status = "internal",
                                !.primary = "noUserId"]
                 ELSE [@ EXCEPT !.pc = "check"]]
    /\ UNCHANGED <<users, posts, comments, threads, query, resp>>

\* `if (await User.findById(req.userId))` at :508-510; a store failure is
\* thrown out of the handler
CreateCheck(r, err) ==
    /\ req[r].pc = "check" /\ req[r].kind = "create"
    /\ req' = [req EXCEPT ![r] =
                 IF err
                 THEN [@ EXCEPT !.pc = "done", !.status = "internal",
                                !.primary = "loadFailed"]
                 ELSE IF users[req[r].userId] # NoUser
                 THEN [@ EXCEPT !.pc = "done", !.status = "conflict"]
                 ELSE [@ EXCEPT !.pc = "save"]]
    /\ UNCHANGED <<users, posts, comments, threads, query, resp>>

\* `await new User(userData).save()` at :517 and the return at :518-521: an
\* insert, which the store refuses when a document with that _id exists
\* (duplicate key); the error is thrown out of the handler
CreateSave(r, err) ==
    /\ req[r].pc = "save" /\ req[r].kind = "create"
    /\ IF err
       THEN /\ req' = [req EXCEPT ![r] = [@ EXCEPT !.pc = "done", !.status = "internal",
                                                   !.primary = "saveFailed"]]
            /\ UNCHANGED users
       ELSE IF users[req[r].userId] # NoUser
       THEN /\ req' = [req EXCEPT ![r] = [@ EXCEPT !.pc = "done", !.status = "internal",
                                                   !.primary = "duplicateKey"]]
            /\ UNCHANGED users
       ELSE /\ users' = [users EXCEPT ![req[r].userId] = UserData(req[r].userId)]
            /\ req' = [req EXCEPT ![r] = [@ EXCEPT !.pc = "done", !.status = "ok",
                                                   !.primary = "ok",
                                                   !.user = UserData(req[r].userId),
                                                   !.sent = UserData(req[r].userId)]]
    /\ UNCHANGED <<posts, comments, threads, query, resp>>

\* the callers whose write requests the model runs: a profile owner and an
\* identity without a profile
Callers == {1, 4}

Next ==
    \/ \E r \in Reqs, uid \in Callers, body \in Bodies : PatchStart(r, uid, body)
    \/ \E r \in Reqs, err \in BOOLEAN : PatchLoad(r, err)
    \/ \E r \in Reqs, err \in BOOLEAN : PatchSave(r, err)
    \/ \E r \in Reqs, err \in BOOLEAN : PatchPosts(r, err)
    \/ \E r \in Reqs, err \in BOOLEAN : PatchComments(r, err)
    \/ \E r \in Reqs, err \in BOOLEAN : PatchThreads(r, err)
    \/ \E r \in Reqs, uid \in Callers, file \in Files : AvatarStart(r, uid, file)
    \/ \E r \in Reqs, err \in BOOLEAN : AvatarLoad(r, err)
    \/ \E r \in Reqs, err \in BOOLEAN : AvatarUpload(r, err)
    \/ \E r \in Reqs, err \in BOOLEAN : AvatarSave(r, err)
    \/ \E r \in Reqs, err \in BOOLEAN : AvatarPosts(r, err)
    \/ \E r \in Reqs, err \in BOOLEAN : AvatarComments(r, err)
    \/ \E r \in Reqs, err \in BOOLEAN : AvatarThreads(r, err)
    \/ \E r \in Reqs, uid \in Callers \cup {0} : CreateStart(r, uid)
    \/ \E r \in Reqs, emailVerified \in BOOLEAN, err \in BOOLEAN :
          CreateVerify(r, emailVerified, err)
    \/ \E r \in Reqs, err \in BOOLEAN : CreateCheck(r, err)
    \/ \E r \in Reqs, err \in BOOLEAN : CreateSave(r, err)

Spec == Init /\ [][Next]_vars

-----------------------------------------------------------------------------
(* Properties of the profile update and its propagation *)

NameKeys == {"firstName", "lastName", "photo"}

\* the snapshots of user i a collection holds
AuthorSnaps(coll, i) == {coll[k].author : k \in {j \in DOMAIN coll : coll[j].author.id = i}}
ParticipantSnaps(i) ==
    {threads[k].participants[j] :
        k \in DOMAIN threads, j \in 1..2} \cap
    {[id |-> i, name |-> n, photo |-> ph] :
        n \in {threads[k].participants[j].name : k \in DOMAIN threads, j \in 1..2},
        ph \in {threads[k].participants[j].photo : k \in DOMAIN threads, j \in 1..2}}
SnapsOf(i) == AuthorSnaps(posts, i) \cup AuthorSnaps(comments, i) \cup ParticipantSnaps(i)

\* every snapshot of user i carries the profile's current name and photo
SnapshotsCurrent(i) == \A s \in SnapsOf(i) : s = Snapshot(i, users[i])

\* the snapshots of the users other than i are the ones content was created with
OthersUntouched(i) ==
    \A j \in UserIds \ {i} :
        /\ AuthorSnaps(posts, j) = AuthorSnaps(InitPosts, j)
        /\ AuthorSnaps(comments, j) = AuthorSnaps(InitComments, j)
        /\ j # 4 => ParticipantSnaps(j) \subseteq {Snapshot(j, InitUser(j))}

\* r is the only write request that has arrived so far
Single(r) == \A q \in Reqs \ {r} : req[q].pc = "idle"

\* r is a profile update that returned
PatchDone(r) == req[r].kind = "patch" /\ req[r].pc = "done"

\* C1 (as stated): after a single profile update that changes firstName,
\* lastName or photo and whose three fan-out updates all succeeded, every
\* post, comment and thread participant snapshot of that profile carries the
\* profile's current name and photo.
C1_SingleUpdatePropagates ==
    \A r \in Reqs :
        (/\ PatchDone(r) /\ Single(r) /\ req[r].status = "ok"
         /\ DOMAIN req[r].body \cap NameKeys # {}
         /\ req[r].tried = Collections /\ req[r].failed = {})
        => SnapshotsCurrent(req[r].userId)

\* C2: whichever of the three fan-out updates fail, a profile update that
\* started its propagation attempts all three, answers with the updated
\* profile as success, keeps the profile write, and applies every fan-out
\* update that did not fail.
C2_FanOutFailuresAreIsolated ==
    \A r \in Reqs :
        (PatchDone(r) /\ req[r].tried # {}) =>
            /\ req[r].tried = Collections
            /\ req[r].status = "ok"
            /\ req[r].sent = req[r].user
            /\ \A k \in DOMAIN req[r].body : req[r].sent[k] = req[r].body[k]
            /\ Single(r) =>
                 LET i == req[r].userId
                     b == req[r].body
                     name == HasTruthyText(b, "firstName") \/ HasTruthyText(b, "lastName")
                     fresh(s) == /\ name => s.name = FullName(users[i])
                                 /\ HasTruthyPhoto(b) => s.photo = users[i].photo
                 IN  /\ users[i] = req[r].sent
                     /\ "posts" \notin req[r].failed =>
                            \A s \in AuthorSnaps(posts, i) : fresh(s)
                     /\ "comments" \notin req[r].failed =>
                            \A s \in AuthorSnaps(comments, i) : fresh(s)
                     /\ "threads" \notin req[r].failed =>
                            \A s \in ParticipantSnaps(i) : s = Snapshot(i, users[i])

\* C2 witness: an update whose posts and threads fan-out failed returned
\* success, and its comments fan-out was applied
C2_Witness ==
    \E r \in Reqs :
        /\ PatchDone(r) /\ Single(r) /\ req[r].status = "ok"
        /\ req[r].failed = {"posts", "threads"}
        /\ posts = InitPosts /\ threads = InitThreads
        /\ comments # InitComments
        /\ users[req[r].userId] # InitUser(req[r].userId)

\* C3 (as stated): a profile update triggers propagation if and only if the
\* profile write succeeded and the body contains a firstName, lastName or
\* photo field, whatever its value; otherwise every snapshot is unchanged.
C3_PropagatesIffFieldPresent ==
    \A r \in Reqs :
        PatchDone(r) =>
            /\ req[r].tried # {} <=>
                  (req[r].status = "ok" /\ DOMAIN req[r].body \cap NameKeys # {})
            /\ (Single(r) /\ ~(req[r].status = "ok"
                               /\ DOMAIN req[r].body \cap NameKeys # {})) =>
                  (posts = InitPosts /\ comments = InitComments /\ threads = InitThreads)

\* every name or photo value a request submits is non-empty, and it submits one
SubmitsValues(r) ==
    /\ req[r].kind = "patch" =>
          /\ DOMAIN req[r].body \cap NameKeys # {}
          /\ \A k \in DOMAIN req[r].body \cap {"firstName", "lastName"} :
                 TruthyText(req[r].body[k])
          /\ "photo" \in DOMAIN req[r].body => TruthyPhoto(req[r].body["photo"])
    /\ req[r].kind \in {"patch", "avatar"}

\* C4 (as stated): once two name/photo updates of the same profile have both
\* completed, with every fan-out update applied, every snapshot of the profile
\* holds the profile's current name and photo, whatever the interleaving.
C4_InterleavedUpdatesConverge ==
    (\A r \in Reqs :
        /\ req[r].pc = "done" /\ req[r].status = "ok" /\ SubmitsValues(r)
        /\ req[r].userId = 1
        /\ req[r].tried = Collections /\ req[r].failed = {})
    => SnapshotsCurrent(1)

\* C11 (as stated): in the profile update and the avatar upload/delete, a
\* request whose profile could not be loaded, was absent or could not be saved
\* ends with an internal or not-found failure response: it never reports
\* success, never stays without a response, and issues no fan-out update.
C11_PrimaryFailuresSurface ==
    \A r \in Reqs :
        (/\ req[r].kind \in {"patch", "avatar"}
         /\ req[r].primary \in {"loadFailed", "absent", "saveFailed"})
        => /\ req[r].pc = "done"
           /\ req[r].status \in {"internal", "notFound"}
           /\ req[r].primary = "absent" <=> req[r].status = "notFound"
           /\ req[r].tried = {}

\* r is a creation that got past the email and configuration guards and met
\* no failure of the identity service or of the store
CreateRan(r) ==
    /\ req[r].kind = "create" /\ req[r].pc = "done"
    /\ req[r].primary \notin {"authFailed", "unverified", "noUserId",
                               "loadFailed", "saveFailed"}

\* C12 (as stated): a creation for an identity that already has a profile
\* ends in conflict and leaves that profile unchanged; of two creations for
\* the same identity, however interleaved, exactly one creates the profile and
\* the other receives conflict; an identity never has two profiles (at most
\* one creation per identity succeeds).
C12_DuplicateCreationConflicts ==
    /\ \A r \in Reqs :
          (CreateRan(r) /\ req[r].existed) =>
              /\ req[r].status = "conflict"
              /\ Single(r) => users = InitUsers
    /\ \A r, q \in Reqs :
          (/\ r # q /\ CreateRan(r) /\ CreateRan(q)
           /\ req[r].userId = req[q].userId
           /\ users[req[r].userId] # NoUser)
          => {req[r].status, req[q].status} \in {{"ok", "conflict"}, {"conflict"}}
    /\ \A r, q \in Reqs :
          (/\ r # q /\ req[r].kind = "create" /\ req[q].kind = "create"
           /\ req[r].userId = req[q].userId)
          => ~(req[r].status = "ok" /\ req[q].status = "ok")

-----------------------------------------------------------------------------
(* GET /, users.js:29-215: the directory search *)

USERS_PAGE_SIZE == 10

MaxCoord == 1       \* coordinates range over 0..MaxCoord
MaxSkip == 1        \* skip ranges over 0..MaxSkip, or is absent
MaxLimit == 1       \* limit ranges over -1..MaxLimit, or is absent

Has(o, k) == k \in DOMAIN o
WithoutKey(o, k) == [x \in DOMAIN o \ {k} |-> o[x]]

\* the documents of the IndividualUser collection
Docs == {users[i] : i \in {j \in UserIds : users[j] # NoUser}}

Lower(c) ==
    CASE c = "J" -> "j" [] c = "D" -> "d" [] c = "N" -> "n" [] c = "L" -> "l"
      [] c = "Z" -> "z" [] c = "H" -> "h" [] c = "X" -> "x" [] c = "Y" -> "y"
      [] OTHER -> c
LowerText(t) == [i \in 1..Len(t) |-> Lower(t[i])]
Contains(t, k) == \E i \in 0..(Len(t) - Len(k)) : SubSeq(t, i + 1, i + Len(k)) = k

\* field matches createSearchRegex(keywords): a case-insensitive substring
KeywordsRegex(t, keywords) == Contains(LowerText(t), LowerText(keywords))

\* the score $text gives a document: the indexed text fields holding the word
TextScore(d, keywords) ==
    Cardinality({k \in {"firstName", "lastName", "about"} :
                    LowerText(d[k]) = LowerText(keywords)})

\* `location` at :63-69: the query filter's location, else the requester's own
EffectiveLocation(q, user) ==
    IF Has(q, "location") THEN q.location
    ELSE IF user # Undefined /\ ~q.ignoreUserLocation
         THEN IF Has(user, "location") THEN user.location ELSE Undefined
         ELSE Undefined

\* filters that push the hide.address predicate for every effective location
FiltersHideWhenLocated(q, location) ==
    <<"type">>
    \o (IF location # Undefined THEN <<"hide">> ELSE <<>>)
    \o (IF Has(q, "objective") THEN <<q.objective>> ELSE <<>>)
    \o (IF location # Undefined /\ q.keywords # Empty THEN <<"regex">> ELSE <<>>)

\* `filters` at :61-102, as the list of the predicates pushed
Filters(q, location) ==
    <<"type">>
    \o (IF Has(q, "location") THEN <<"hide">> ELSE <<>>)
    \o (IF Has(q, "objective") THEN <<q.objective>> ELSE <<>>)
    \o (IF location # Undefined /\ q.keywords # Empty THEN <<"regex">> ELSE <<>>)

\* one predicate of `filters` on a document
Holds(d, f, keywords) ==
    CASE f = "type"    -> d.type = "Individual"
      [] f = "hide"    -> d.hide.address = FALSE
      [] f = "request" -> d.needs.medicalHelp \/ d.needs.otherHelp
      [] f = "offer"   -> \/ d.objectives.donate
                          \/ d.objectives.shareInformation
                          \/ d.objectives.volunteer
      [] f = "regex"   -> \/ \E k \in {"firstName", "lastName", "about"} :
                                KeywordsRegex(d[k], keywords)
                          \/ /\ Has(d, "location")
                             /\ \E k \in {"country", "state", "city"} :
                                   KeywordsRegex(d.location[k], keywords)

\* {$and: filters}
MatchAll(d, filters, keywords) ==
    \A i \in DOMAIN filters : Holds(d, filters[i], keywords)

Perms(S) == {s \in [1..Cardinality(S) -> S] :
                \A i, j \in DOMAIN s : i # j => s[i] # s[j]}
Dist(a, b) == IF a >= b THEN a - b ELSE b - a

\* a selector that lets the keyword take precedence over the location
PlanKeywordsFirst(location, keywords) ==
    IF keywords # Empty THEN "text"
    ELSE IF location # Undefined THEN "geo" ELSE "default"

\* the plan the conditional at :105-127 takes
Plan(location, keywords) ==
    IF location # Undefined THEN "geo"
    ELSE IF keywords # Empty THEN "text" ELSE "default"

\* sortAndFilterSteps at :105-127: the ordered result sets the stages can
\* produce ($geoNear returns the documents that have the key
\* location.coordinates; equal text scores come in any order)
SortAndFilterSteps(location, filters, keywords) ==
    IF Plan(location, keywords) = "geo"
    THEN LET near == {d @@ ("distance" :>
                              Dist(d.location.coordinates, location.coordinates)) :
                        d \in {e \in Docs : /\ Has(e, "location")
                                            /\ MatchAll(e, filters, keywords)}}
         IN  {s \in Perms(near) :
                \A i, j \in DOMAIN s : i < j =>
                    \/ s[i].distance < s[j].distance
                    \/ s[i].distance = s[j].distance /\ s[i]._id > s[j]._id}
    ELSE IF Plan(location, keywords) = "text"
    THEN LET found == {d \in Docs : /\ MatchAll(d, filters, keywords)
                                    /\ TextScore(d, keywords) > 0}
         IN  {s \in Perms(found) :
                \A i, j \in DOMAIN s : i < j =>
                    TextScore(s[i], keywords) >= TextScore(s[j], keywords)}
    ELSE LET found == {d \in Docs : MatchAll(d, filters, keywords)}
         IN  {s \in Perms(found) :
                \A i, j \in DOMAIN s : i < j => s[i]._id > s[j]._id}

Min(a, b) == IF a <= b THEN a ELSE b

\* paginationSteps at :130-144
PaginationSteps(list, q) ==
    LET skip == IF Has(q, "skip") /\ q.skip # 0 THEN q.skip ELSE 0
        skipped == SubSeq(list, skip + 1, Len(list))
    IN  IF Has(q, "limit") /\ q.limit = -1
        THEN skipped
        ELSE LET limit == IF Has(q, "limit") /\ q.limit # 0
                          THEN q.limit ELSE USERS_PAGE_SIZE
             IN  SubSeq(skipped, 1, Min(limit, Len(skipped)))

\* a projection that includes the location whatever hide.address says
ProjectLocationAlways(d) ==
    LET kept == [k \in {"_id", "about", "firstName", "lastName", "type", "urls",
                        "objectives", "needs", "photo"} |-> d[k]]
                @@ ("hide" :> [address |-> d.hide.address])
    IN  IF Has(d, "location") THEN kept @@ ("location" :> d.location) ELSE kept

\* the $project stage at :148-162
Project(d) ==
    LET kept == [k \in {"_id", "about", "firstName", "lastName", "type", "urls",
                        "objectives", "needs", "photo"} |-> d[k]]
                @@ ("hide" :> [address |-> d.hide.address])
    IN  IF d.hide.address THEN kept @@ ("location" :> Null)
        ELSE IF Has(d, "location") THEN kept @@ ("location" :> d.location)
        ELSE kept

\* a pipeline without the $unset stage
KeepCoordinates(e) == e

\* the $unset stage at :163-165
UnsetCoordinates(e) ==
    IF Has(e, "location") /\ Has(e.location, "coordinates")
    THEN [e EXCEPT !.location = WithoutKey(@, "coordinates")]
    ELSE e

\* projectionSteps at :147-166
ProjectionSteps(list) == [i \in DOMAIN list |-> UnsetCoordinates(Project(list[i]))]

\* totalResultsAggregationPipeline at :176-186: $match then $group to a count
TotalResults(location, filters, keywords) ==
    LET matched == IF keywords # Empty /\ location = Undefined
                   THEN {d \in Docs : /\ MatchAll(d, filters, keywords)
                                      /\ TextScore(d, keywords) > 0}
                   ELSE {d \in Docs : MatchAll(d, filters, keywords)}
    IN  IF matched = {} THEN <<>>
        ELSE <<[_id |-> Null, count |-> Cardinality(matched)]>>

\* responseHandler at :192-204
ResponseHandler(q, response, total) ==
    IF ~q.includeMeta THEN response
    ELSE [meta |-> [total |-> IF Len(total) # 0 THEN total[1].count ELSE 0],
          data |-> response]

NoTrace == [plan |-> "none", ordered |-> <<>>]
Failure(status) == [status |-> status, trace |-> NoTrace]

\* the handler of GET /; fail names the store call that fails, if any.  The
\* response keeps, next to the body, the plan taken and the ordered result
\* set before pagination.
Search(q, fail) ==
    /\ query.op = "none"
    /\ query' = q
    /\ IF q.userId # 0 /\ fail = "findById"
       THEN resp' = Failure("internal")
       ELSE IF q.userId # 0 /\ users[q.userId] = NoUser
       THEN resp' = Failure("forbidden")
       ELSE LET user == IF q.userId # 0 THEN users[q.userId] ELSE Undefined
                location == EffectiveLocation(q, user)
                filters == Filters(q, location)
                total == TotalResults(location, filters, q.keywords)
            IN  IF fail = "aggregate"
                THEN resp' = Failure("internal")
                ELSE \E sorted \in SortAndFilterSteps(location, filters, q.keywords) :
                        resp' = [status |-> "ok",
                                 body |-> ResponseHandler(q,
                                    ProjectionSteps(PaginationSteps(sorted, q)), total),
                                 trace |-> [plan |-> Plan(location, q.keywords),
                                            ordered |-> sorted]]
    /\ UNCHANGED <<users, posts, comments, threads, req>>

\* the query strings GET / is given: userId is 0 for an anonymous requester
OptionalKeys == {"location", "objective", "limit", "skip"}
MkQuery(K, uid, ignore, c, objective, keywords, limit, skip, meta) ==
    [k \in K |-> CASE k = "location"  -> [coordinates |-> c]
                  [] k = "objective" -> objective
                  [] k = "limit"     -> limit
                  [] k = "skip"      -> skip]
    @@ [op |-> "search", userId |-> uid, ignoreUserLocation |-> ignore,
        keywords |-> keywords, includeMeta |-> meta]
Queries ==
    {MkQuery(K, uid, ignore, c, objective, keywords, limit, skip, meta) :
        K \in SUBSET OptionalKeys, uid \in {0, 1, 4}, ignore \in BOOLEAN,
        c \in 0..MaxCoord, objective \in {"request", "offer"},
        keywords \in {Empty, <<"j", "o">>}, limit \in -1..MaxLimit,
        skip \in 0..MaxSkip, meta \in BOOLEAN}

-----------------------------------------------------------------------------
(* GET /current, users.js:217-264, and GET /:userId, users.js:337-392 *)

\* the fields of a document a handler copies into its answer
Pick(d, keys) == [k \in keys \cap DOMAIN d |-> d[k]]

GetCurrent(uid, err) ==
    /\ query.op = "none"
    /\ query' = [op |-> "current", userId |-> uid]
    /\ resp' = IF err THEN Failure("internal")
               ELSE IF users[uid] = NoUser THEN Failure("notFound")
               ELSE [status |-> "ok", trace |-> NoTrace,
                     body |-> Pick(users[uid],
                                {"about", "firstName", "hide", "lastName", "location",
                                 "needs", "objectives", "photo", "urls"})
                              @@ ("id" :> uid)]
    /\ UNCHANGED <<users, posts, comments, threads, req>>

\* viewer is the authenticated requester, 0 when there is none
GetUserById(viewer, userId, err) ==
    /\ query.op = "none"
    /\ query' = [op |-> "byId", userId |-> viewer, target |-> userId]
    /\ resp' =
         IF err THEN Failure("internal")
         ELSE IF users[userId] = NoUser THEN Failure("notFound")
         ELSE LET user == users[userId] IN
              \* `delete location.coordinates` on an undefined location throws
              IF ~Has(user, "location") THEN Failure("internal")
              ELSE LET location == IF user.hide.address THEN <<>>
                                   ELSE WithoutKey(user.location, "coordinates")
                   IN  [status |-> "ok", trace |-> NoTrace,
                        body |-> Pick(user, {"about", "firstName", "lastName", "needs",
                                             "objectives", "photo", "urls"})
                                 @@ [id |-> userId, location |-> location,
                                     ownUser |-> (viewer # 0 /\ viewer = userId)]]
    /\ UNCHANGED <<users, posts, comments, threads, req>>

\* the stored profiles the reads are checked on: every profile may hide its
\* address, and may have any location or none
Locations == {Place(c) : c \in 0..MaxCoord}
Stored(i, hidden, loc) ==
    LET d == [InitUser(i) EXCEPT !.hide = [address |-> hidden]]
    IN  IF loc = Undefined THEN WithoutKey(d, "location")
        ELSE [d EXCEPT !.location = loc]

InitSearch ==
    /\ \E h1, h2 \in BOOLEAN, l1, l2 \in Locations \cup {Undefined} :
          users = [i \in UserIds |->
                     CASE i = 1 -> Stored(1, h1, l1)
                       [] i = 2 -> Stored(2, h2, l2)
                       [] i = 3 -> InitUser(3)
                       [] OTHER -> NoUser]
    /\ InitContent
    /\ req = [r \in Reqs |-> IdleReq]
    /\ query = NoQuery
    /\ resp = NoResp

\* the model serves one read per behaviour
Unserved == query.op = "none"

NextSearch ==
    \/ Unserved /\ \E q \in Queries, fail \in {"none", "findById", "aggregate"} :
                      Search(q, fail)
    \/ Unserved /\ \E uid \in {1, 4}, err \in BOOLEAN : GetCurrent(uid, err)
    \/ Unserved /\ \E viewer \in {0, 1, 2}, userId \in UserIds, err \in BOOLEAN :
                      GetUserById(viewer, userId, err)

SpecSearch == InitSearch /\ [][NextSearch]_vars

-----------------------------------------------------------------------------
(* Properties of the reads *)

SearchOk == query.op = "search" /\ resp.status = "ok"

\* the list of profile summaries a search answered with
Data == IF query.includeMeta THEN resp.body.data ELSE resp.body
Entries == {Data[i] : i \in DOMAIN Data}
IdsOf(list) == [i \in DOMAIN list |-> list[i]._id]

HasCoordinates(e) == Has(e, "location") /\ Has(e.location, "coordinates")

\* C5 (as stated): no response that returns a profile carries raw
\* coordinates: no entry of a search result, and neither the read by id nor
\* the current-profile read.
C5_NoCoordinatesInAnyResponse ==
    /\ SearchOk => \A e \in Entries : ~HasCoordinates(e)
    /\ (query.op \in {"byId", "current"} /\ resp.status = "ok")
          => ~HasCoordinates(resp.body)

\* C5 (amended): no entry of a directory search result and no read of a
\* profile by id carries raw coordinates, for every profile, viewer and value
\* of the hidden-address flag.
C5_NoCoordinatesInDirectory ==
    /\ SearchOk => \A e \in Entries : ~HasCoordinates(e)
    /\ (query.op = "byId" /\ resp.status = "ok") => ~HasCoordinates(resp.body)

\* C5 witness: a search returned the location of a visible profile that has
\* stored coordinates, without the coordinates
C5_Witness ==
    /\ SearchOk
    /\ \E e \in Entries :
          /\ ~e.hide.address /\ Has(e, "location") /\ Has(e.location, "city")
          /\ HasCoordinates(users[e._id])
          /\ ~HasCoordinates(e)

\* C6: the location of a hidden-address profile is null in every search
\* result entry, whichever plan ranked it, and empty in the read by id for
\* every viewer other than the owner.
C6_HiddenAddressNeverShown ==
    /\ SearchOk => \A e \in Entries :
          users[e._id].hide.address => (Has(e, "location") /\ e.location = Null)
    /\ (/\ query.op = "byId" /\ resp.status = "ok"
        /\ users[query.target].hide.address
        /\ query.userId # query.target)
          => resp.body.location = <<>>

\* C6 witness: the geo-proximity plan returned a hidden-address profile that
\* has a stored location
C6_Witness ==
    /\ SearchOk /\ resp.trace.plan = "geo"
    /\ \E e \in Entries : e.hide.address /\ Has(users[e._id], "location")

\* a document passes the filters of the query other than the hidden-address one
PassesOtherFilters(d) ==
    /\ d.type = "Individual"
    /\ Has(query, "objective") => Holds(d, query.objective, query.keywords)
    /\ resp.trace.plan = "geo" =>
          /\ Has(d, "location")
          /\ query.keywords # Empty => Holds(d, "regex", query.keywords)
    /\ resp.trace.plan = "text" => TextScore(d, query.keywords) > 0

Unpaginated ==
    /\ Has(query, "limit") /\ query.limit = -1
    /\ Has(query, "skip") => query.skip = 0

\* C7: with a location override no returned profile hides its address;
\* without one, a hidden-address profile that passes the other filters is
\* returned.
C7_HiddenExcludedIffOverride ==
    SearchOk =>
        /\ Has(query, "location") => \A e \in Entries : ~e.hide.address
        /\ (~Has(query, "location") /\ Unpaginated) =>
              \A d \in Docs : (d.hide.address /\ PassesOtherFilters(d))
                                 => \E e \in Entries : e._id = d._id

\* C7 witness: a search for offers with a location override returned visible
\* profile 3 with its location, and not hidden profile 1, which offers too
C7_Witness ==
    /\ SearchOk /\ Has(query, "location") /\ Has(query, "objective")
    /\ query.objective = "offer"
    /\ Has(users[1], "location") /\ users[1].hide.address
    /\ \E e \in Entries : e._id = 3 /\ Has(e.location, "city")
    /\ \A e \in Entries : e._id # 1

\* the requester's stored location can anchor the search
RequesterLocated ==
    /\ query.userId # 0 /\ ~query.ignoreUserLocation
    /\ Has(users[query.userId], "location")

\* where the geo-proximity plan is anchored
Anchor == IF Has(query, "location") THEN query.location.coordinates
          ELSE users[query.userId].location.coordinates
DistanceOf(e) == Dist(users[e._id].location.coordinates, Anchor)

\* C8: a search runs the geo-proximity plan iff there is an override or the
\* authenticated requester, not ignoring its location, has a stored one; the
\* text plan iff there is neither but a keyword; the default plan iff there is
\* neither.  Geo results ascend in distance, ties by descending id; default
\* results descend in id.
C8_OnePlanByPrecedence ==
    SearchOk =>
        LET located == Has(query, "location") \/ RequesterLocated
            plan == resp.trace.plan
        IN  /\ plan \in {"geo", "text", "default"}
            /\ plan = "geo" <=> located
            /\ plan = "text" <=> (~located /\ query.keywords # Empty)
            /\ plan = "default" <=> (~located /\ query.keywords = Empty)
            /\ plan = "geo" =>
                  \A i, j \in DOMAIN Data : i < j =>
                      \/ DistanceOf(Data[i]) < DistanceOf(Data[j])
                      \/ /\ DistanceOf(Data[i]) = DistanceOf(Data[j])
                         /\ Data[i]._id > Data[j]._id
            /\ plan = "default" =>
                  \A i, j \in DOMAIN Data : i < j => Data[i]._id > Data[j]._id

\* C8 witness: a keyword search anchored at the requester's stored location
\* ran the geo plan and returned two profiles at different distances
C8_Witness ==
    /\ SearchOk /\ ~Has(query, "location") /\ RequesterLocated
    /\ query.keywords # Empty /\ resp.trace.plan = "geo"
    /\ \E i, j \in DOMAIN Data : i < j /\ DistanceOf(Data[i]) < DistanceOf(Data[j])

\* C9 (as stated): the returned list is the ordered result set at positions
\* [s, s+l), with s = 0 when skip is absent and l = 10 when limit is absent,
\* and everything from s onward when limit is -1.
C9_PageIsSlice ==
    SearchOk =>
        LET ordered == IdsOf(resp.trace.ordered)
            s == IF Has(query, "skip") THEN query.skip ELSE 0
            l == IF Has(query, "limit") THEN query.limit ELSE USERS_PAGE_SIZE
        IN  IdsOf(Data) =
               IF l = -1 THEN SubSeq(ordered, s + 1, Len(ordered))
               ELSE SubSeq(ordered, s + 1, Min(s + l, Len(ordered)))

\* C10 (as stated): with includeMeta the answer is {meta: {total}, data} and
\* total is the number of entries the same search returns with skip 0 and no
\* limit, whichever plan ranks them.
C10_TotalCountsResults ==
    (SearchOk /\ query.includeMeta) =>
        /\ DOMAIN resp.body = {"meta", "data"}
        /\ resp.body.meta.total = Len(resp.trace.ordered)

====
